---- MODULE Spec2Model ----
(***************************************************************************)
(* Model of the browser-based authentication flow of the Fastly CLI        *)
(* (pkg/commands/authenticate/root.go): the orchestrator RootCommand.Exec, *)
(* the goroutine running server.startServer, and the /callback handler     *)
(* goroutines that net/http starts, one per request.                       *)
(***************************************************************************)
EXTENDS Integers, Sequences, FiniteSets, TLC

\* ------------------------------------------------------------------ bounds

\* Number of /callback requests that may arrive in one run of Exec.
MaxCallbacks == 2

Handlers == 1..MaxCallbacks

\* ------------------------------------------------------- program constants

AuthRemediation == "Please re-run the command. If the problem persists, please file an issue"

ProfileRemediation == "ProfileRemediation"

EditRemediation == "Run fastly profile update and manually paste in the session token."

StatusOK == 200

SuccessBody == "Authenticated successfully. Please close this page and return to the Fastly CLI in your terminal."

\* ------------------------------------------------------------------ values

\* A Go error: inner message and remediation ("" remediation: a plain error).
\* NoErr is the nil error.
NoErr == [inner |-> "", remediation |-> ""]

RemediationError(inner, remediation) == [inner |-> inner, remediation |-> remediation]

PlainError(inner) == [inner |-> inner, remediation |-> ""]

\* type JWT struct: only the two token strings are read by the flow.
JWT(at, it) == [AccessToken |-> at, IDToken |-> it]

ZeroJWT == JWT("", "")

\* type authorizationResult struct {err; jwt; sessionToken}; err "" is nil.
authorizationResult(err, j, tok) == [err |-> err, jwt |-> j, sessionToken |-> tok]

NoResult == authorizationResult("", ZeroJWT, "")

\* A JSON value of a claims map (map[string]any): kind "absent" is a key that
\* is not in the map; obj is the nested mapping of a value of kind "map".
AnyAbsent == [kind |-> "absent", str |-> ""]

AnyString(s) == [kind |-> "string", str |-> s]

AnyNumber == [kind |-> "number", str |-> ""]

InnerValues == {AnyAbsent, AnyNumber, AnyString(""), AnyString("S1"), AnyString("S2")}

InnerMap(v) == [access_token |-> v]

AnyMap(m) == [kind |-> "map", str |-> "", obj |-> m]

AnyScalar(k, s) == [kind |-> k, str |-> s, obj |-> InnerMap(AnyAbsent)]

ClaimValues ==
    {AnyScalar("absent", ""), AnyScalar("number", ""), AnyScalar("string", "S1")}
        \cup {AnyMap(InnerMap(v)) : v \in InnerValues}

\* The claim maps a verified token may carry.
ClaimsSet == {[ui_token |-> c] : c \in ClaimValues}

EmptyClaims == [ui_token |-> AnyScalar("absent", "")]

\* ---------------------------------------------------------- pure functions

\* oidc.CreateCodeChallenge: the one-way S256 digest of the raw verifier.
CreateCodeChallenge(v) == <<"S256", v>>

\* generateAuthorizationURL: the URL as the tuple of its formatted parts.
generateAuthorizationURL(v) ==
    [base |-> "AuthProviderCLIAppURL/authorize",
     audience |-> "AuthProviderAudience",
     scope |-> "openid",
     response_type |-> "code",
     client_id |-> "AuthProviderClientID",
     code_challenge |-> CreateCodeChallenge(v),
     code_challenge_method |-> "S256",
     redirect_uri |-> "AuthProviderRedirectURL"]

NoURL == [generateAuthorizationURL("") EXCEPT !.base = ""]

\* What the token endpoint may answer to the POST of getJWT: a transport
\* error, or a response with a status, a body that can or cannot be read, and
\* a body that is or is not JSON decoding to a JWT.
TokenBodies == {JWT(a, i) : a \in {"", "AT1"}, i \in {"", "IT1"}}

HTTPResponses ==
    {[transport |-> "error", status |-> 0, read |-> "ok", json |-> FALSE, body |-> ZeroJWT]}
        \cup {[transport |-> "ok", status |-> 400, read |-> "ok", json |-> TRUE, body |-> JWT("AT1", "IT1")]}
        \cup {[transport |-> "ok", status |-> StatusOK, read |-> "error", json |-> TRUE, body |-> JWT("AT1", "IT1")]}
        \cup {[transport |-> "ok", status |-> StatusOK, read |-> "ok", json |-> FALSE, body |-> ZeroJWT]}
        \cup {[transport |-> "ok", status |-> StatusOK, read |-> "ok", json |-> TRUE, body |-> b] : b \in TokenBodies}

\* getJWT with the check of the status left out.
getJWT_NoStatusCheck(resp) ==
    IF resp.transport # "ok" THEN [j |-> ZeroJWT, err |-> "transport error", requests |-> 1]
    ELSE IF resp.read # "ok" THEN [j |-> ZeroJWT, err |-> "read error", requests |-> 1]
    ELSE IF ~resp.json THEN [j |-> ZeroJWT, err |-> "decode error", requests |-> 1]
    ELSE [j |-> resp.body, err |-> "", requests |-> 1]

\* getJWT, given the endpoint's answer: the JWT, the error message, and the
\* number of requests it sent (one http.DefaultClient.Do on every path;
\* http.NewRequest cannot fail on the constant method and URL).
getJWT(resp) ==
    IF resp.transport # "ok" THEN [j |-> ZeroJWT, err |-> "transport error", requests |-> 1]
    ELSE IF resp.status # StatusOK
        THEN [j |-> ZeroJWT, err |-> "failed to exchange code for jwt (status)", requests |-> 1]
    ELSE IF resp.read # "ok" THEN [j |-> ZeroJWT, err |-> "read error", requests |-> 1]
    ELSE IF ~resp.json THEN [j |-> ZeroJWT, err |-> "decode error", requests |-> 1]
    ELSE [j |-> resp.body, err |-> "", requests |-> 1]

\* What the key-set endpoint and the signature check may answer to one call of
\* verifyJWTSignature: the key set is fetched or not, the signature is valid
\* or not, and a valid token carries claims.
VerifyOutcomes ==
    {[keyset |-> FALSE, valid |-> FALSE, claims |-> EmptyClaims],
     [keyset |-> TRUE, valid |-> FALSE, claims |-> EmptyClaims]}
        \cup {[keyset |-> TRUE, valid |-> TRUE, claims |-> c] : c \in ClaimsSet}

ErrVerify == "failed to verify signature of access token"

\* verifyJWTSignature, given the answers: the pair (claims, error message).
verifyJWTSignature(o) ==
    IF ~o.keyset THEN [claims |-> EmptyClaims, err |-> ErrVerify]
    ELSE IF ~o.valid THEN [claims |-> EmptyClaims, err |-> ErrVerify]
    ELSE [claims |-> o.claims, err |-> ""]

ErrExtract == "failed to extract session token from JWT custom claim"

\* extractSessionToken with the check t != "" left out.
extractSessionToken_NoEmptyCheck(claims) ==
    IF claims.ui_token.kind = "map"
       /\ claims.ui_token.obj.access_token.kind = "string"
    THEN [tok |-> claims.ui_token.obj.access_token.str, err |-> ""]
    ELSE [tok |-> "", err |-> ErrExtract]

\* extractSessionToken: the nested lookups and type assertions of the code.
extractSessionToken(claims) ==
    LET i == claims.ui_token IN
    IF i.kind # "absent"
    THEN IF i.kind = "map"
         THEN LET v == i.obj.access_token IN
              IF v.kind # "absent"
              THEN IF v.kind = "string"
                   THEN IF v.str # ""
                        THEN [tok |-> v.str, err |-> ""]
                        ELSE [tok |-> "", err |-> ErrExtract]
                   ELSE [tok |-> "", err |-> ErrExtract]
              ELSE [tok |-> "", err |-> ErrExtract]
         ELSE [tok |-> "", err |-> ErrExtract]
    ELSE [tok |-> "", err |-> ErrExtract]

\* ------------------------------------------- external collaborator: profiles

ProfileNames == {"user", "work"}

NoProfile == [present |-> FALSE, Default |-> FALSE, Token |-> ""]

Profile(d, t) == [present |-> TRUE, Default |-> d, Token |-> t]

\* The configurations Exec may start from: one with a default profile and one
\* without.
InitialProfiles ==
    {[n \in ProfileNames |-> IF n = "user" THEN Profile(TRUE, "old") ELSE Profile(FALSE, "other")],
     [n \in ProfileNames |-> IF n = "user" THEN NoProfile ELSE Profile(FALSE, "other")]}

\* profile.Default: the name of the default profile, "" when there is none.
ProfileDefault(p) ==
    IF \E n \in ProfileNames : p[n].present /\ p[n].Default
    THEN CHOOSE n \in ProfileNames : p[n].present /\ p[n].Default
    ELSE ""

\* profile.Edit with the closure of Exec (p.Token = ar.sessionToken) applied to
\* the named profile.
ProfileEdit(name, p, tok) == [p EXCEPT ![name].Token = tok]

\* ------------------------------------------------------------------- state

VARIABLES
    pc,            \* the orchestrator's position in Exec
    ret,           \* the error Exec returned (NoErr: nil, or not returned yet)
    verifier,      \* the code verifier of Exec ("" before it is generated)
    srv,           \* the goroutine running startServer
    serverErr,     \* the variable serverErr shared with that goroutine
    authURL,       \* authorizationURL
    ar,            \* the authorizationResult Exec received
    nReceived,     \* number of receives from the result channel that completed
    sender,        \* the handler whose send the receive completed (0: none)
    olog,          \* the orchestrator's steps with an outside effect, in order
    profiles,      \* c.Globals.Config.Profiles
    preProfiles,   \* c.Globals.Config.Profiles when Exec started
    disk,          \* the configuration store as last written
    hpc,           \* each /callback invocation's position in the handler
    code,          \* its `code` query parameter
    jwt,           \* its j
    claims,        \* its claims (of the ID token)
    payload,       \* the code_verifier and code it posted to the token endpoint
    resp,          \* what the token endpoint answered to it
    res,           \* the authorizationResult it sends
    body,          \* what it wrote to the http.ResponseWriter
    hlog,          \* its calls of the exchanger, verifier, extractor, in order
    posts          \* number of HTTP requests it sent to the token endpoint

\* The list and update commands: one run of one command's Exec.
VARIABLES
    command,       \* the command that runs ("none" while the authenticate command runs)
    cpc,           \* the position of its Exec
    flags,         \* c.Globals.Verbose() and c.JSONOutput.Enabled
    opts,          \* the command's struct: its name and its optional flags
    service,       \* serviceID and serviceVersion.Number, once resolved
    input,         \* the input handed to the API client
    keys,          \* the keys gathered by the key listing
    clog,          \* the calls of cmd.ServiceDetails, the spinner and the API client, in order
    out,           \* what Exec wrote to out
    pages,         \* the answers of ListKVStoreKeys so far, in order
    cret           \* the error Exec returned ("" for nil)

cvars == <<command, cpc, flags, opts, service, input, keys, clog, out, pages, cret>>

ovars == <<pc, ret, verifier, authURL, ar, nReceived, sender, olog, profiles, preProfiles, disk>>

svars == <<srv, serverErr>>

hvars == <<hpc, code, jwt, claims, payload, resp, res, body, hlog, posts>>

avars == <<ovars, svars, hvars>>

vars == <<pc, ret, verifier, srv, serverErr, authURL, ar, nReceived, sender, olog,
          profiles, preProfiles, disk, hpc, code, jwt, claims, payload, resp, res, body, hlog, posts,
          command, cpc, flags, opts, service, input, keys, clog, out, pages, cret>>

\* The verifier is an opaque random value no step branches on.
Verifiers == {"v1"}

Codes == {"", "AUTHCODE1"}

NoResponse == [transport |-> "", status |-> 0, read |-> "", json |-> FALSE, body |-> ZeroJWT]

NoPayload == [code_verifier |-> "", code |-> ""]

\* No service resolved yet, no input built yet.
NoService == [ServiceID |-> "", ServiceVersion |-> 0]

NoInput == <<>>

\* The authenticate command at the start of its Exec.
AuthInit ==
    /\ pc = "NewCodeVerifier"
    /\ ret = NoErr
    /\ verifier = ""
    /\ srv = "none"
    /\ serverErr = NoErr
    /\ authURL = NoURL
    /\ ar = NoResult
    /\ nReceived = 0
    /\ sender = 0
    /\ olog = <<>>
    /\ profiles \in InitialProfiles
    /\ preProfiles = profiles
    /\ disk = profiles
    /\ hpc = [h \in Handlers |-> "idle"]
    /\ code = [h \in Handlers |-> ""]
    /\ jwt = [h \in Handlers |-> ZeroJWT]
    /\ claims = [h \in Handlers |-> EmptyClaims]
    /\ payload = [h \in Handlers |-> NoPayload]
    /\ resp = [h \in Handlers |-> NoResponse]
    /\ res = [h \in Handlers |-> NoResult]
    /\ body = [h \in Handlers |-> ""]
    /\ hlog = [h \in Handlers |-> <<>>]
    /\ posts = [h \in Handlers |-> 0]

\* The authenticate command runs; no list or update command does.
Init ==
    /\ AuthInit
    /\ command = "none"
    /\ cpc = "idle"
    /\ flags = [Verbose |-> FALSE, JSON |-> FALSE]
    /\ opts = <<>>
    /\ service = NoService
    /\ input = NoInput
    /\ keys = <<>>
    /\ clog = <<>>
    /\ out = <<>>
    /\ pages = <<>>
    /\ cret = ""

\* ------------------------------------------------- the orchestrator: Exec

\* return e
Return(e) == pc' = "done" /\ ret' = e

\* verifier, err := oidc.NewCodeVerifier(), and the return on its error.
ExecNewCodeVerifier ==
    /\ pc = "NewCodeVerifier"
    /\ \E ok \in BOOLEAN, v \in Verifiers :
        IF ok
        THEN /\ verifier' = v
             /\ pc' = "go"
             /\ olog' = Append(olog, "verifier")
             /\ ret' = ret
        ELSE /\ Return(RemediationError("failed to generate a code verifier", AuthRemediation))
             /\ UNCHANGED <<verifier, olog>>
    /\ UNCHANGED <<authURL, ar, nReceived, sender, profiles, preProfiles, disk>>
    /\ UNCHANGED <<svars, hvars>>
    /\ UNCHANGED cvars

\* The start of the listener left out: Exec goes on without the go statement.
ExecStartServer_NoGo ==
    /\ pc = "go"
    /\ pc' = "checkServerErr"
    /\ UNCHANGED <<ret, verifier, authURL, ar, nReceived, sender, olog, profiles, preProfiles, disk>>
    /\ UNCHANGED <<svars, hvars>>
    /\ UNCHANGED cvars

\* result := make(chan ...); s := server{...}; s.routes(); go func() {...}()
ExecStartServer ==
    /\ pc = "go"
    /\ srv' = "spawned"
    /\ pc' = "checkServerErr"
    /\ olog' = Append(olog, "go")
    /\ UNCHANGED <<ret, verifier, authURL, ar, nReceived, sender, profiles, preProfiles, disk>>
    /\ UNCHANGED <<serverErr, hvars>>
    /\ UNCHANGED cvars

\* The values the unsynchronised read of serverErr may yield: nothing orders
\* it with the goroutine's write, so after the write it yields the written
\* value or still nil.
ServerErrReads == {NoErr, serverErr}

\* if serverErr != nil { return serverErr }
ExecCheckServerErr ==
    /\ pc = "checkServerErr"
    /\ \E seen \in ServerErrReads :
        IF seen # NoErr
        THEN Return(seen)
        ELSE pc' = "generateURL" /\ ret' = ret
    /\ UNCHANGED <<verifier, authURL, ar, nReceived, sender, olog, profiles, preProfiles, disk>>
    /\ UNCHANGED <<svars, hvars>>
    /\ UNCHANGED cvars

\* The URL built from a verifier generated anew.
ExecGenerateURL_NewVerifier ==
    /\ pc = "generateURL"
    /\ \E ok \in BOOLEAN :
        IF ok
        THEN /\ verifier' = "v0"
             /\ authURL' = generateAuthorizationURL(verifier')
             /\ pc' = "openBrowser"
             /\ olog' = Append(olog, "url")
             /\ ret' = ret
        ELSE /\ Return(RemediationError("failed to generate an authorization URL", AuthRemediation))
             /\ UNCHANGED <<verifier, authURL, olog>>
    /\ UNCHANGED <<ar, nReceived, sender, profiles, preProfiles, disk>>
    /\ UNCHANGED <<svars, hvars>>
    /\ UNCHANGED cvars

\* authorizationURL, err := generateAuthorizationURL(verifier), and the return
\* on its error (oidc.CreateCodeChallenge failed).
ExecGenerateURL ==
    /\ pc = "generateURL"
    /\ \E ok \in BOOLEAN :
        IF ok
        THEN /\ authURL' = generateAuthorizationURL(verifier)
             /\ pc' = "openBrowser"
             /\ olog' = Append(olog, "url")
             /\ ret' = ret
        ELSE /\ Return(RemediationError("failed to generate an authorization URL", AuthRemediation))
             /\ UNCHANGED <<authURL, olog>>
    /\ UNCHANGED <<verifier, ar, nReceived, sender, profiles, preProfiles, disk>>
    /\ UNCHANGED <<svars, hvars>>
    /\ UNCHANGED cvars

\* The launch of the browser with its error ignored.
ExecOpenBrowser_IgnoreErr ==
    /\ pc = "openBrowser"
    /\ \E ok \in BOOLEAN :
        olog' = Append(olog, IF ok THEN "browser" ELSE "browser error")
    /\ pc' = "receive"
    /\ UNCHANGED <<ret, verifier, authURL, ar, nReceived, sender, profiles, preProfiles, disk>>
    /\ UNCHANGED <<svars, hvars>>
    /\ UNCHANGED cvars

\* err = open.Run(authorizationURL), and the return on its error.
ExecOpenBrowser ==
    /\ pc = "openBrowser"
    /\ \E ok \in BOOLEAN :
        IF ok
        THEN /\ pc' = "receive"
             /\ olog' = Append(olog, "browser")
             /\ ret' = ret
        ELSE /\ Return(PlainError("failed to open your default browser"))
             /\ olog' = Append(olog, "browser error")
    /\ UNCHANGED <<verifier, authURL, ar, nReceived, sender, profiles, preProfiles, disk>>
    /\ UNCHANGED <<svars, hvars>>
    /\ UNCHANGED cvars

\* The receive with a deadline: Exec gives up waiting and returns.
ExecReceive_Timeout(h) ==
    /\ pc = "receive"
    /\ hpc[h] \in {"idle", "send"}
    /\ IF hpc[h] = "send"
       THEN /\ ar' = res[h]
            /\ nReceived' = nReceived + 1
            /\ sender' = h
            /\ hpc' = [hpc EXCEPT ![h] = "returned"]
            /\ pc' = "checkResult"
            /\ olog' = Append(olog, "receive")
            /\ ret' = ret
       ELSE /\ Return(RemediationError("timed out waiting for the result", AuthRemediation))
            /\ UNCHANGED <<ar, nReceived, sender, hpc, olog>>
    /\ UNCHANGED <<verifier, authURL, profiles, preProfiles, disk>>
    /\ UNCHANGED <<svars, code, jwt, claims, payload, resp, res, body, hlog, posts>>
    /\ UNCHANGED cvars

\* The receive followed by a shutdown of the listener.
ExecReceive_Shutdown(h) ==
    /\ pc = "receive"
    /\ hpc[h] = "send"
    /\ ar' = res[h]
    /\ nReceived' = nReceived + 1
    /\ sender' = h
    /\ hpc' = [hpc EXCEPT ![h] = "returned"]
    /\ pc' = "checkResult"
    /\ olog' = Append(olog, "receive")
    /\ srv' = "closed"
    /\ UNCHANGED <<ret, verifier, authURL, profiles, preProfiles, disk>>
    /\ UNCHANGED <<serverErr, code, jwt, claims, payload, resp, res, body, hlog, posts>>
    /\ UNCHANGED cvars

\* ar := <-result looping: the orchestrator stays at the receive.
ExecReceive_Again(h) ==
    /\ pc = "receive"
    /\ hpc[h] = "send"
    /\ ar' = res[h]
    /\ nReceived' = nReceived + 1
    /\ sender' = h
    /\ hpc' = [hpc EXCEPT ![h] = "returned"]
    /\ olog' = Append(olog, "receive")
    /\ UNCHANGED <<pc, ret, verifier, authURL, profiles, preProfiles, disk>>
    /\ UNCHANGED <<svars, code, jwt, claims, payload, resp, res, body, hlog, posts>>
    /\ UNCHANGED cvars

\* ar := <-result meeting handler h's s.result <- authorizationResult{...}: the
\* channel is unbuffered, so the send and the receive complete together, and
\* the handler returns.
ExecReceive(h) ==
    /\ pc = "receive"
    /\ hpc[h] = "send"
    /\ ar' = res[h]
    /\ nReceived' = nReceived + 1
    /\ sender' = h
    /\ hpc' = [hpc EXCEPT ![h] = "returned"]
    /\ pc' = "checkResult"
    /\ olog' = Append(olog, "receive")
    /\ UNCHANGED <<ret, verifier, authURL, profiles, preProfiles, disk>>
    /\ UNCHANGED <<svars, code, jwt, claims, payload, resp, res, body, hlog, posts>>
    /\ UNCHANGED cvars

\* The check of ar with the return left out.
ExecCheckResult_NoReturn ==
    /\ pc = "checkResult"
    /\ pc' = "profileDefault"
    /\ olog' = Append(olog, "success message")
    /\ UNCHANGED <<ret, verifier, authURL, ar, nReceived, sender, profiles, preProfiles, disk>>
    /\ UNCHANGED <<svars, hvars>>
    /\ UNCHANGED cvars

\* if ar.err != nil || ar.sessionToken == "" { return ... }; text.Success(...)
ExecCheckResult ==
    /\ pc = "checkResult"
    /\ IF ar.err # "" \/ ar.sessionToken = ""
       THEN /\ Return(RemediationError("failed to authorize", AuthRemediation))
            /\ olog' = olog
       ELSE /\ pc' = "profileDefault"
            /\ olog' = Append(olog, "success message")
            /\ ret' = ret
    /\ UNCHANGED <<verifier, authURL, ar, nReceived, sender, profiles, preProfiles, disk>>
    /\ UNCHANGED <<svars, hvars>>
    /\ UNCHANGED cvars

\* profileName, _ := profile.Default(...); if profileName == "" { return ... }
ExecProfileDefault ==
    /\ pc = "profileDefault"
    /\ IF ProfileDefault(profiles) = ""
       THEN Return(RemediationError("no profiles available", ProfileRemediation))
       ELSE pc' = "profileEdit" /\ ret' = ret
    /\ UNCHANGED <<verifier, authURL, ar, nReceived, sender, olog, profiles, preProfiles, disk>>
    /\ UNCHANGED <<svars, hvars>>
    /\ UNCHANGED cvars

\* ps, ok := profile.Edit(...); if !ok { return ... }; c.Globals.Config.Profiles = ps
ExecProfileEdit ==
    /\ pc = "profileEdit"
    /\ \E ok \in BOOLEAN :
        IF ok
        THEN /\ profiles' = ProfileEdit(ProfileDefault(profiles), profiles, ar.sessionToken)
             /\ pc' = "configWrite"
             /\ olog' = Append(olog, "edit")
             /\ ret' = ret
        ELSE /\ Return(RemediationError("failed to update default profile with new session token", EditRemediation))
             /\ olog' = Append(olog, "edit")
             /\ profiles' = profiles
    /\ UNCHANGED <<verifier, authURL, ar, nReceived, sender, preProfiles, disk>>
    /\ UNCHANGED <<svars, hvars>>
    /\ UNCHANGED cvars

\* The write of the configuration with its error ignored.
ExecConfigWrite_IgnoreErr ==
    /\ pc = "configWrite"
    /\ \E ok \in BOOLEAN : disk' = IF ok THEN profiles ELSE disk
    /\ pc' = "done"
    /\ ret' = NoErr
    /\ olog' = Append(olog, "write")
    /\ UNCHANGED <<verifier, authURL, ar, nReceived, sender, profiles, preProfiles>>
    /\ UNCHANGED <<svars, hvars>>
    /\ UNCHANGED cvars

\* if err := c.Globals.Config.Write(c.Globals.Path); err != nil { return ... }
\* return nil
ExecConfigWrite ==
    /\ pc = "configWrite"
    /\ \E ok \in BOOLEAN :
        IF ok
        THEN /\ disk' = profiles
             /\ pc' = "done"
             /\ ret' = NoErr
        ELSE /\ Return(PlainError("error saving config file"))
             /\ disk' = disk
    /\ olog' = Append(olog, "write")
    /\ UNCHANGED <<verifier, authURL, ar, nReceived, sender, profiles, preProfiles>>
    /\ UNCHANGED <<svars, hvars>>
    /\ UNCHANGED cvars

\* --------------------------------------------- the goroutine: startServer

\* err := http.ListenAndServe(":8080", s.router): the bind succeeds and the
\* call serves for good, or it fails and startServer returns the error.
StartServer ==
    /\ srv = "spawned"
    /\ \E ok \in BOOLEAN : srv' = IF ok THEN "listening" ELSE "bindFailed"
    /\ UNCHANGED <<serverErr, ovars, hvars>>
    /\ UNCHANGED cvars

\* if err != nil { serverErr = err } in the goroutine of Exec
GoSetServerErr ==
    /\ srv = "bindFailed"
    /\ serverErr' = RemediationError("failed to start local server", AuthRemediation)
    /\ srv' = "exited"
    /\ UNCHANGED <<ovars, hvars>>
    /\ UNCHANGED cvars

\* ------------------------------------------- the handler: handleCallback

ErrNoCode == "no authorization code returned"

ErrExchange == "failed to exchange code for JWT"

\* One call the handler made: the function, its argument, and whether it
\* returned without error.
Call(op, arg, ok) == [op |-> op, arg |-> arg, ok |-> ok]

\* The send on a buffered channel: it completes at once and the handler
\* returns.
Deliver_Buffered(h, r) ==
    /\ res' = [res EXCEPT ![h] = r]
    /\ hpc' = [hpc EXCEPT ![h] = "returned"]

\* s.result <- authorizationResult{...}: handler h blocks at the send with r.
Deliver(h, r) ==
    /\ res' = [res EXCEPT ![h] = r]
    /\ hpc' = [hpc EXCEPT ![h] = "send"]

\* fmt.Fprint(w, b)
WriteBody(h, b) == body' = [body EXCEPT ![h] = b]

\* The start of the handler with the check of the code left out.
HandleCallback_NoCodeCheck(h) ==
    /\ srv = "listening"
    /\ hpc[h] = "idle"
    /\ \A g \in Handlers : g < h => hpc[g] # "idle"
    /\ \E c \in Codes : code' = [code EXCEPT ![h] = c]
    /\ hpc' = [hpc EXCEPT ![h] = "getJWT"]
    /\ UNCHANGED <<jwt, claims, payload, resp, hlog, body, res>>
    /\ UNCHANGED <<ovars, svars>>
    /\ UNCHANGED posts
    /\ UNCHANGED cvars

\* The start of the handler returning on an empty code without the send.
HandleCallback_NoSend(h) ==
    /\ srv = "listening"
    /\ hpc[h] = "idle"
    /\ \A g \in Handlers : g < h => hpc[g] # "idle"
    /\ \E c \in Codes :
        /\ code' = [code EXCEPT ![h] = c]
        /\ IF c = ""
           THEN /\ WriteBody(h, "ERROR: no authorization code returned")
                /\ res' = [res EXCEPT ![h] = authorizationResult(ErrNoCode, ZeroJWT, "")]
                /\ hpc' = [hpc EXCEPT ![h] = "returned"]
           ELSE /\ hpc' = [hpc EXCEPT ![h] = "getJWT"]
                /\ UNCHANGED <<body, res>>
    /\ UNCHANGED <<jwt, claims, payload, resp, hlog>>
    /\ UNCHANGED <<ovars, svars>>
    /\ UNCHANGED posts
    /\ UNCHANGED cvars

\* A request on /callback is dispatched to a new invocation h of the handler
\* (the invocations are numbered in the order of their start): it reads the
\* code parameter and ends on an empty one.
HandleCallback(h) ==
    /\ srv = "listening"
    /\ hpc[h] = "idle"
    /\ \A g \in Handlers : g < h => hpc[g] # "idle"
    /\ \E c \in Codes :
        /\ code' = [code EXCEPT ![h] = c]
        /\ IF c = ""
           THEN /\ WriteBody(h, "ERROR: no authorization code returned")
                /\ Deliver(h, authorizationResult(ErrNoCode, ZeroJWT, ""))
           ELSE /\ hpc' = [hpc EXCEPT ![h] = "getJWT"]
                /\ UNCHANGED <<body, res>>
    /\ UNCHANGED <<jwt, claims, payload, resp, hlog>>
    /\ UNCHANGED <<ovars, svars>>
    /\ UNCHANGED posts
    /\ UNCHANGED cvars

\* The exchange with the check of j.IDToken left out.
ExchangeCode_NoIDTokenCheck(h) ==
    /\ hpc[h] = "getJWT"
    /\ payload' = [payload EXCEPT ![h] = [code_verifier |-> verifier, code |-> code[h]]]
    /\ \E rs \in HTTPResponses :
        LET r == getJWT(rs) IN
        /\ resp' = [resp EXCEPT ![h] = rs]
        /\ hlog' = [hlog EXCEPT ![h] = Append(@, Call("getJWT", code[h], r.err = ""))]
        /\ jwt' = [jwt EXCEPT ![h] = r.j]
        /\ posts' = [posts EXCEPT ![h] = @ + r.requests]
        /\ IF r.err # "" \/ r.j.AccessToken = ""
           THEN /\ WriteBody(h, "ERROR: failed to exchange code for JWT")
                /\ Deliver(h, authorizationResult(ErrExchange, ZeroJWT, ""))
           ELSE /\ hpc' = [hpc EXCEPT ![h] = "verifyAccess"]
                /\ UNCHANGED <<body, res>>
    /\ UNCHANGED <<code, claims>>
    /\ UNCHANGED <<ovars, svars>>
    /\ UNCHANGED cvars

\* The exchange retried on failure: the handler stays at the call of getJWT.
ExchangeCode_Retry(h) ==
    /\ hpc[h] = "getJWT"
    /\ payload' = [payload EXCEPT ![h] = [code_verifier |-> verifier, code |-> code[h]]]
    /\ \E rs \in HTTPResponses :
        LET r == getJWT(rs) IN
        /\ resp' = [resp EXCEPT ![h] = rs]
        /\ hlog' = [hlog EXCEPT ![h] = Append(@, Call("getJWT", code[h], r.err = ""))]
        /\ jwt' = [jwt EXCEPT ![h] = r.j]
        /\ posts' = [posts EXCEPT ![h] = @ + r.requests]
        /\ IF r.err # "" \/ r.j.AccessToken = "" \/ r.j.IDToken = ""
           THEN UNCHANGED <<hpc, body, res>>
           ELSE /\ hpc' = [hpc EXCEPT ![h] = "verifyAccess"]
                /\ UNCHANGED <<body, res>>
    /\ UNCHANGED <<code, claims>>
    /\ UNCHANGED <<ovars, svars>>
    /\ UNCHANGED cvars

\* codeVerifier := s.verifier.Verifier(); j, err := getJWT(codeVerifier, code)
\* and the check of err and of the two token strings.
ExchangeCode(h) ==
    /\ hpc[h] = "getJWT"
    /\ payload' = [payload EXCEPT ![h] = [code_verifier |-> verifier, code |-> code[h]]]
    /\ \E rs \in HTTPResponses :
        LET r == getJWT(rs) IN
        /\ resp' = [resp EXCEPT ![h] = rs]
        /\ hlog' = [hlog EXCEPT ![h] = Append(@, Call("getJWT", code[h], r.err = ""))]
        /\ jwt' = [jwt EXCEPT ![h] = r.j]
        /\ posts' = [posts EXCEPT ![h] = @ + r.requests]
        /\ IF r.err # "" \/ r.j.AccessToken = "" \/ r.j.IDToken = ""
           THEN /\ WriteBody(h, "ERROR: failed to exchange code for JWT")
                /\ Deliver(h, authorizationResult(ErrExchange, ZeroJWT, ""))
           ELSE /\ hpc' = [hpc EXCEPT ![h] = "verifyAccess"]
                /\ UNCHANGED <<body, res>>
    /\ UNCHANGED <<code, claims>>
    /\ UNCHANGED <<ovars, svars>>
    /\ UNCHANGED cvars

\* The calls one verifyJWTSignature(token) makes: the key set is fetched, and
\* the signature is checked when the fetch succeeded (the fetch is logged with
\* the token of the call it is made in).
VerifyCalls(token, o) ==
    IF o.keyset
    THEN <<Call("NewJSONWebKeySet", token, TRUE), Call("VerifySignature", token, o.valid)>>
    ELSE <<Call("NewJSONWebKeySet", token, FALSE)>>

\* The verification of the access token with its error ignored.
VerifyAccessToken_IgnoreErr(h) ==
    /\ hpc[h] = "verifyAccess"
    /\ \E o \in VerifyOutcomes :
        hlog' = [hlog EXCEPT ![h] = @ \o VerifyCalls(jwt[h].AccessToken, o)]
    /\ hpc' = [hpc EXCEPT ![h] = "verifyID"]
    /\ UNCHANGED <<code, jwt, claims, payload, resp, body, res>>
    /\ UNCHANGED <<ovars, svars>>
    /\ UNCHANGED posts
    /\ UNCHANGED cvars

\* _, err = verifyJWTSignature(j.AccessToken) and the check of err.
VerifyAccessToken(h) ==
    /\ hpc[h] = "verifyAccess"
    /\ \E o \in VerifyOutcomes :
        LET r == verifyJWTSignature(o) IN
        /\ hlog' = [hlog EXCEPT ![h] = @ \o VerifyCalls(jwt[h].AccessToken, o)]
        /\ IF r.err # ""
           THEN Deliver(h, authorizationResult(r.err, ZeroJWT, ""))
           ELSE hpc' = [hpc EXCEPT ![h] = "verifyID"] /\ res' = res
    /\ UNCHANGED <<code, jwt, claims, payload, resp, body>>
    /\ UNCHANGED <<ovars, svars>>
    /\ UNCHANGED posts
    /\ UNCHANGED cvars

\* The verification of the ID token with the key set of the earlier call
\* kept: no fetch, only the check of the signature.
VerifyIDToken_CachedKeySet(h) ==
    /\ hpc[h] = "verifyID"
    /\ \E o \in VerifyOutcomes :
        /\ o.keyset
        /\ LET r == verifyJWTSignature(o) IN
            /\ hlog' = [hlog EXCEPT ![h] = Append(@, Call("VerifySignature", jwt[h].IDToken, o.valid))]
            /\ IF r.err # ""
               THEN Deliver(h, authorizationResult(r.err, ZeroJWT, "")) /\ claims' = claims
               ELSE /\ hpc' = [hpc EXCEPT ![h] = "extract"]
                    /\ claims' = [claims EXCEPT ![h] = r.claims]
                    /\ res' = res
    /\ UNCHANGED <<code, jwt, payload, resp, body>>
    /\ UNCHANGED <<ovars, svars>>
    /\ UNCHANGED posts
    /\ UNCHANGED cvars

\* claims, err := verifyJWTSignature(j.IDToken) and the check of err.
VerifyIDToken(h) ==
    /\ hpc[h] = "verifyID"
    /\ \E o \in VerifyOutcomes :
        LET r == verifyJWTSignature(o) IN
        /\ hlog' = [hlog EXCEPT ![h] = @ \o VerifyCalls(jwt[h].IDToken, o)]
        /\ IF r.err # ""
           THEN Deliver(h, authorizationResult(r.err, ZeroJWT, "")) /\ claims' = claims
           ELSE /\ hpc' = [hpc EXCEPT ![h] = "extract"]
                /\ claims' = [claims EXCEPT ![h] = r.claims]
                /\ res' = res
    /\ UNCHANGED <<code, jwt, payload, resp, body>>
    /\ UNCHANGED <<ovars, svars>>
    /\ UNCHANGED posts
    /\ UNCHANGED cvars

\* The extraction with its error ignored: the success result is sent with
\* whatever the extractor returned.
ExtractAndRespond_IgnoreErr(h) ==
    /\ hpc[h] = "extract"
    /\ LET r == extractSessionToken(claims[h]) IN
        /\ hlog' = [hlog EXCEPT ![h] = Append(@, Call("extractSessionToken", "", r.err = ""))]
        /\ WriteBody(h, SuccessBody)
        /\ Deliver(h, authorizationResult("", jwt[h], r.tok))
    /\ UNCHANGED <<code, jwt, claims, payload, resp, posts>>
    /\ UNCHANGED <<ovars, svars>>
    /\ UNCHANGED cvars

\* sessionToken, err := extractSessionToken(claims), the check of err, and on
\* success the body and the result with the tokens and the session token.
ExtractAndRespond(h) ==
    /\ hpc[h] = "extract"
    /\ LET r == extractSessionToken(claims[h]) IN
        /\ hlog' = [hlog EXCEPT ![h] = Append(@, Call("extractSessionToken", "", r.err = ""))]
        /\ IF r.err # ""
           THEN Deliver(h, authorizationResult(r.err, ZeroJWT, "")) /\ body' = body
           ELSE /\ WriteBody(h, SuccessBody)
                /\ Deliver(h, authorizationResult("", jwt[h], r.tok))
    /\ UNCHANGED <<code, jwt, claims, payload, resp>>
    /\ UNCHANGED <<ovars, svars>>
    /\ UNCHANGED posts
    /\ UNCHANGED cvars

\* ----------------------------------------------------------- specification

Next ==
    \/ ExecNewCodeVerifier
    \/ ExecStartServer
    \/ ExecCheckServerErr
    \/ ExecGenerateURL
    \/ ExecOpenBrowser
    \/ \E h \in Handlers : ExecReceive(h)
    \/ ExecCheckResult
    \/ ExecProfileDefault
    \/ ExecProfileEdit
    \/ ExecConfigWrite
    \/ StartServer
    \/ GoSetServerErr
    \/ \E h \in Handlers : HandleCallback(h)
    \/ \E h \in Handlers : ExchangeCode(h)
    \/ \E h \in Handlers : VerifyAccessToken(h)
    \/ \E h \in Handlers : VerifyIDToken(h)
    \/ \E h \in Handlers : ExtractAndRespond(h)

Spec == Init /\ [][Next]_vars

\* The steps of one invocation of the handler after its start: each is a call
\* that returns.
HandlerStep(h) ==
    \/ ExchangeCode(h)
    \/ VerifyAccessToken(h)
    \/ VerifyIDToken(h)
    \/ ExtractAndRespond(h)

\* The steps of Exec other than the receive.
ExecStep ==
    \/ ExecNewCodeVerifier
    \/ ExecStartServer
    \/ ExecCheckServerErr
    \/ ExecGenerateURL
    \/ ExecOpenBrowser
    \/ ExecCheckResult
    \/ ExecProfileDefault
    \/ ExecProfileEdit
    \/ ExecConfigWrite

\* The Go scheduler runs every goroutine that can run, and every external
\* call returns: Exec, the goroutine of startServer and each started handler
\* take their next step, and a receive meets a waiting send. Whether a request
\* arrives on /callback is up to the browser: no fairness for HandleCallback.
Fairness ==
    /\ WF_vars(ExecStep)
    /\ WF_vars(\E h \in Handlers : ExecReceive(h))
    /\ WF_vars(StartServer \/ GoSetServerErr)
    /\ \A h \in Handlers : WF_vars(HandlerStep(h))

FairSpec == Init /\ [][Next]_vars /\ Fairness

\* ------------------------------------------- the list and update commands

MaxPages == 2

MaxSetFlags == 2

ServiceListCommands == {"logging cloudfiles list", "logging logshuttle list", "vcl custom list"}

KVListCommand == "kv-store-entry list"

UpdateCommands == {"logging bigquery update", "backend update"}

ErrInvalidVerboseJSONCombo == "invalid flag combination, --verbose and --json"

\* A pointer field of an API input: nil, or a pointer to v.
Nil == <<>>

Ptr(v) == <<v>>

\* fastly.CBool(b): a pointer to the Compatibool of b.
CBool(b) == Ptr(b)

\* cmd.OptionalString, cmd.OptionalInt, cmd.OptionalBool: the flag's value and
\* whether the flag was given on the command line.
Optional(wasSet, value) == [WasSet |-> wasSet, Value |-> value]

\* The values a flag of each type is given here, and the value its field
\* holds when the flag is not given.
FlagValues(type) ==
    CASE type = "string" -> <<"", "x">>
      [] type = "int" -> <<0, 2>>
      [] type = "bool" -> <<FALSE, TRUE>>

ZeroValue(type) == FlagValues(type)[1]

\* The optional flags of the update command for BigQuery logging, by type.
BigQueryFlags ==
    [AccountName |-> "string", Dataset |-> "string", Format |-> "string",
     FormatVersion |-> "int", NewName |-> "string", Placement |-> "string",
     ProjectID |-> "string", ResponseCondition |-> "string", SecretKey |-> "string",
     Table |-> "string", Template |-> "string", User |-> "string"]

\* The optional flags of the update command for backends, by type.
BackendFlags ==
    [NewName |-> "string", Comment |-> "string", Address |-> "string", Port |-> "int",
     OverrideHost |-> "string", ConnectTimeout |-> "int", MaxConn |-> "int",
     FirstByteTimeout |-> "int", BetweenBytesTimeout |-> "int",
     AutoLoadbalance |-> "bool", Weight |-> "int", RequestCondition |-> "string",
     HealthCheck |-> "string", Shield |-> "string", UseSSL |-> "bool",
     SSLCheckCert |-> "bool", SSLCACert |-> "string", SSLClientCert |-> "string",
     SSLClientKey |-> "string", SSLCertHostname |-> "string",
     SSLSNIHostname |-> "string", MinTLSVersion |-> "string",
     MaxTLSVersion |-> "string", SSLCiphers |-> "string"]

OptionalFlags(cmd) ==
    IF cmd = "backend update" THEN BackendFlags ELSE BigQueryFlags

\* The sets of at most k of the flags in names.
RECURSIVE FlagSets(_, _)
FlagSets(names, k) ==
    IF k = 0 THEN {{}}
    ELSE LET smaller == FlagSets(names, k - 1)
         IN  smaller \cup {s \cup {f} : s \in smaller, f \in names}

\* The command's struct after the parse of a command line that gives the
\* flags in given, flag f with the pick[f]-th of its values.
ParsedCommand(cmd, given, pick) ==
    LET types == OptionalFlags(cmd) IN
    [f \in DOMAIN types \cup {"name"} |->
        IF f = "name" THEN "endpoint"
        ELSE IF f \in given THEN Optional(TRUE, FlagValues(types[f])[pick[f]])
        ELSE Optional(FALSE, ZeroValue(types[f]))]

\* UpdateCommand.ConstructInput of the BigQuery logging update command.
ConstructInput(serviceID, serviceVersion, c) ==
    [ServiceID |-> serviceID,
     ServiceVersion |-> serviceVersion,
     Name |-> c.name,
     AccountName |-> IF c.AccountName.WasSet THEN Ptr(c.AccountName.Value) ELSE Nil,
     Dataset |-> IF c.Dataset.WasSet THEN Ptr(c.Dataset.Value) ELSE Nil,
     Format |-> IF c.Format.WasSet THEN Ptr(c.Format.Value) ELSE Nil,
     FormatVersion |-> IF c.FormatVersion.WasSet THEN Ptr(c.FormatVersion.Value) ELSE Nil,
     NewName |-> IF c.NewName.WasSet THEN Ptr(c.NewName.Value) ELSE Nil,
     Placement |-> IF c.Placement.WasSet THEN Ptr(c.Placement.Value) ELSE Nil,
     ProjectID |-> IF c.ProjectID.WasSet THEN Ptr(c.ProjectID.Value) ELSE Nil,
     ResponseCondition |-> IF c.ResponseCondition.WasSet THEN Ptr(c.ResponseCondition.Value) ELSE Nil,
     SecretKey |-> IF c.SecretKey.WasSet THEN Ptr(c.SecretKey.Value) ELSE Nil,
     Table |-> IF c.Table.WasSet THEN Ptr(c.Table.Value) ELSE Nil,
     Template |-> IF c.Template.WasSet THEN Ptr(c.Template.Value) ELSE Nil,
     User |-> IF c.User.WasSet THEN Ptr(c.User.Value) ELSE Nil]

\* That input with the comment forwarded only when it is not empty.
UpdateBackendInput_CommentIfNonEmpty(serviceID, serviceVersion, c) ==
    [ServiceID |-> serviceID,
     ServiceVersion |-> serviceVersion,
     Name |-> c.name,
     NewName |-> IF c.NewName.WasSet THEN Ptr(c.NewName.Value) ELSE Nil,
     Comment |-> IF c.Comment.WasSet /\ c.Comment.Value # "" THEN Ptr(c.Comment.Value) ELSE Nil,
     Address |-> IF c.Address.WasSet THEN Ptr(c.Address.Value) ELSE Nil,
     Port |-> IF c.Port.WasSet THEN Ptr(c.Port.Value) ELSE Nil,
     OverrideHost |-> IF c.OverrideHost.WasSet THEN Ptr(c.OverrideHost.Value) ELSE Nil,
     ConnectTimeout |-> IF c.ConnectTimeout.WasSet THEN Ptr(c.ConnectTimeout.Value) ELSE Nil,
     MaxConn |-> IF c.MaxConn.WasSet THEN Ptr(c.MaxConn.Value) ELSE Nil,
     FirstByteTimeout |-> IF c.FirstByteTimeout.WasSet THEN Ptr(c.FirstByteTimeout.Value) ELSE Nil,
     BetweenBytesTimeout |-> IF c.BetweenBytesTimeout.WasSet THEN Ptr(c.BetweenBytesTimeout.Value) ELSE Nil,
     AutoLoadbalance |-> IF c.AutoLoadbalance.WasSet THEN CBool(c.AutoLoadbalance.Value) ELSE Nil,
     Weight |-> IF c.Weight.WasSet THEN Ptr(c.Weight.Value) ELSE Nil,
     RequestCondition |-> IF c.RequestCondition.WasSet THEN Ptr(c.RequestCondition.Value) ELSE Nil,
     HealthCheck |-> IF c.HealthCheck.WasSet THEN Ptr(c.HealthCheck.Value) ELSE Nil,
     Shield |-> IF c.Shield.WasSet THEN Ptr(c.Shield.Value) ELSE Nil,
     UseSSL |-> IF c.UseSSL.WasSet THEN CBool(c.UseSSL.Value) ELSE Nil,
     SSLCheckCert |-> IF c.SSLCheckCert.WasSet THEN CBool(c.SSLCheckCert.Value) ELSE Nil,
     SSLCACert |-> IF c.SSLCACert.WasSet THEN Ptr(c.SSLCACert.Value) ELSE Nil,
     SSLClientCert |-> IF c.SSLClientCert.WasSet THEN Ptr(c.SSLClientCert.Value) ELSE Nil,
     SSLClientKey |-> IF c.SSLClientKey.WasSet THEN Ptr(c.SSLClientKey.Value) ELSE Nil,
     SSLCertHostname |-> IF c.SSLCertHostname.WasSet THEN Ptr(c.SSLCertHostname.Value) ELSE Nil,
     SSLSNIHostname |-> IF c.SSLSNIHostname.WasSet THEN Ptr(c.SSLSNIHostname.Value) ELSE Nil,
     MinTLSVersion |-> IF c.MinTLSVersion.WasSet THEN Ptr(c.MinTLSVersion.Value) ELSE Nil,
     MaxTLSVersion |-> IF c.MaxTLSVersion.WasSet THEN Ptr(c.MaxTLSVersion.Value) ELSE Nil,
     SSLCiphers |-> IF c.SSLCiphers.WasSet THEN Ptr(c.SSLCiphers.Value) ELSE Nil]

\* The fastly.UpdateBackendInput built in Exec of the backend update command.
UpdateBackendInput(serviceID, serviceVersion, c) ==
    [ServiceID |-> serviceID,
     ServiceVersion |-> serviceVersion,
     Name |-> c.name,
     NewName |-> IF c.NewName.WasSet THEN Ptr(c.NewName.Value) ELSE Nil,
     Comment |-> IF c.Comment.WasSet THEN Ptr(c.Comment.Value) ELSE Nil,
     Address |-> IF c.Address.WasSet THEN Ptr(c.Address.Value) ELSE Nil,
     Port |-> IF c.Port.WasSet THEN Ptr(c.Port.Value) ELSE Nil,
     OverrideHost |-> IF c.OverrideHost.WasSet THEN Ptr(c.OverrideHost.Value) ELSE Nil,
     ConnectTimeout |-> IF c.ConnectTimeout.WasSet THEN Ptr(c.ConnectTimeout.Value) ELSE Nil,
     MaxConn |-> IF c.MaxConn.WasSet THEN Ptr(c.MaxConn.Value) ELSE Nil,
     FirstByteTimeout |-> IF c.FirstByteTimeout.WasSet THEN Ptr(c.FirstByteTimeout.Value) ELSE Nil,
     BetweenBytesTimeout |-> IF c.BetweenBytesTimeout.WasSet THEN Ptr(c.BetweenBytesTimeout.Value) ELSE Nil,
     AutoLoadbalance |-> IF c.AutoLoadbalance.WasSet THEN CBool(c.AutoLoadbalance.Value) ELSE Nil,
     Weight |-> IF c.Weight.WasSet THEN Ptr(c.Weight.Value) ELSE Nil,
     RequestCondition |-> IF c.RequestCondition.WasSet THEN Ptr(c.RequestCondition.Value) ELSE Nil,
     HealthCheck |-> IF c.HealthCheck.WasSet THEN Ptr(c.HealthCheck.Value) ELSE Nil,
     Shield |-> IF c.Shield.WasSet THEN Ptr(c.Shield.Value) ELSE Nil,
     UseSSL |-> IF c.UseSSL.WasSet THEN CBool(c.UseSSL.Value) ELSE Nil,
     SSLCheckCert |-> IF c.SSLCheckCert.WasSet THEN CBool(c.SSLCheckCert.Value) ELSE Nil,
     SSLCACert |-> IF c.SSLCACert.WasSet THEN Ptr(c.SSLCACert.Value) ELSE Nil,
     SSLClientCert |-> IF c.SSLClientCert.WasSet THEN Ptr(c.SSLClientCert.Value) ELSE Nil,
     SSLClientKey |-> IF c.SSLClientKey.WasSet THEN Ptr(c.SSLClientKey.Value) ELSE Nil,
     SSLCertHostname |-> IF c.SSLCertHostname.WasSet THEN Ptr(c.SSLCertHostname.Value) ELSE Nil,
     SSLSNIHostname |-> IF c.SSLSNIHostname.WasSet THEN Ptr(c.SSLSNIHostname.Value) ELSE Nil,
     MinTLSVersion |-> IF c.MinTLSVersion.WasSet THEN Ptr(c.MinTLSVersion.Value) ELSE Nil,
     MaxTLSVersion |-> IF c.MaxTLSVersion.WasSet THEN Ptr(c.MaxTLSVersion.Value) ELSE Nil,
     SSLCiphers |-> IF c.SSLCiphers.WasSet THEN Ptr(c.SSLCiphers.Value) ELSE Nil]

\* What cmd.ServiceDetails returns: a service and its version, or an error.
ServiceDetailsResults ==
    {[err |-> "", ServiceID |-> "svc", ServiceVersion |-> v] : v \in {1, 2}}
        \cup {[err |-> "error resolving service", ServiceID |-> "", ServiceVersion |-> 0]}

\* What a list call of the API client returns: the objects, or an error.
ListResults ==
    {[err |-> "", objects |-> o] : o \in {<<>>, <<"a">>, <<"a", "b">>}}
        \cup {[err |-> "error listing", objects |-> <<>>]}

\* What ListKVStoreKeys returns: a page of keys with or without a
\* next_cursor entry in its Meta, or an error.
KVPageData == {<<>>, <<"k1">>, <<"k2">>}

KVCursors == {"c1", "c2"}

KVResponses ==
    {[err |-> "", Data |-> d, HasNext |-> FALSE, NextCursor |-> ""] : d \in KVPageData}
        \cup {[err |-> "", Data |-> d, HasNext |-> TRUE, NextCursor |-> n] :
                 d \in KVPageData, n \in KVCursors}
        \cup {[err |-> "error listing keys", Data |-> <<>>, HasNext |-> FALSE, NextCursor |-> ""]}

\* One thing written to out.
Output(kind, what) == [kind |-> kind, what |-> what]

\* Exec returns e.
CmdReturn(e) == cpc' = "done" /\ cret' = e

\* A list or an update command at the start of its Exec, after the parse of
\* its command line.
CmdInit ==
    /\ AuthInit
    /\ profiles = CHOOSE p \in InitialProfiles : TRUE
    /\ command \in ServiceListCommands \cup {KVListCommand} \cup UpdateCommands
    /\ cpc = "start"
    /\ flags \in [Verbose : BOOLEAN, JSON : BOOLEAN]
    /\ IF command \in UpdateCommands
       THEN \E given \in FlagSets(DOMAIN OptionalFlags(command), MaxSetFlags) :
            \E pick \in [given -> {1, 2}] :
                opts = ParsedCommand(command, given, pick)
       ELSE opts = <<>>
    /\ service = NoService
    /\ input = NoInput
    /\ keys = <<>>
    /\ clog = <<>>
    /\ out = <<>>
    /\ pages = <<>>
    /\ cret = ""

\* Exec of a list command with the check of verbose and JSON left out.
ListExec_NoComboCheck ==
    /\ cpc = "start"
    /\ command \in ServiceListCommands
    /\ \E r \in ServiceDetailsResults :
          /\ clog' = Append(clog, Call("ServiceDetails", "", r.err = ""))
          /\ IF r.err # ""
             THEN CmdReturn(r.err) /\ UNCHANGED <<service, input>>
             ELSE /\ service' = [ServiceID |-> r.ServiceID, ServiceVersion |-> r.ServiceVersion]
                  /\ input' = service'
                  /\ cpc' = "list"
                  /\ UNCHANGED cret
    /\ UNCHANGED <<command, flags, opts, pages, keys, out>>
    /\ UNCHANGED avars

\* Exec of a list command of a service's objects, up to the API call: the
\* check of the flags, cmd.ServiceDetails and the input.
ListExec ==
    /\ cpc = "start"
    /\ command \in ServiceListCommands
    /\ IF flags.Verbose /\ flags.JSON
       THEN /\ CmdReturn(ErrInvalidVerboseJSONCombo)
            /\ UNCHANGED <<service, input, clog>>
       ELSE \E r \in ServiceDetailsResults :
            /\ clog' = Append(clog, Call("ServiceDetails", "", r.err = ""))
            /\ IF r.err # ""
               THEN CmdReturn(r.err) /\ UNCHANGED <<service, input>>
               ELSE /\ service' = [ServiceID |-> r.ServiceID, ServiceVersion |-> r.ServiceVersion]
                    /\ input' = service'
                    /\ cpc' = "list"
                    /\ UNCHANGED cret
    /\ UNCHANGED <<command, flags, opts, pages, keys, out>>
    /\ UNCHANGED avars

\* The rest of that Exec: the list call of the API client and the output as
\* JSON, as a table or summary, or in the verbose form.
ListCall ==
    /\ cpc = "list"
    /\ command \in ServiceListCommands
    /\ \E r \in ListResults :
          /\ clog' = Append(clog, Call("List", input.ServiceID, r.err = ""))
          /\ cpc' = "done"
          /\ IF r.err # ""
             THEN cret' = r.err /\ out' = out
             ELSE IF flags.JSON
             THEN \E werr \in {"", "error encoding JSON"} :
                     /\ cret' = werr
                     /\ out' = IF werr = "" THEN Append(out, Output("json", r.objects)) ELSE out
             ELSE IF flags.Verbose
             THEN cret' = "" /\ out' = Append(out, Output("verbose", r.objects))
             ELSE IF command = "vcl custom list"
             THEN \E perr \in {"", "error printing summary"} :
                     /\ cret' = perr
                     /\ out' = IF perr = "" THEN Append(out, Output("summary", r.objects)) ELSE out
             ELSE cret' = "" /\ out' = Append(out, Output("table", r.objects))
    /\ UNCHANGED <<command, flags, opts, pages, service, input, keys>>
    /\ UNCHANGED avars

\* Exec of the key listing up to its loop: the check of the flags, the empty
\* cursor, the spinner and its start.
KVListExec ==
    /\ cpc = "start"
    /\ command = KVListCommand
    /\ IF flags.Verbose /\ flags.JSON
       THEN /\ CmdReturn(ErrInvalidVerboseJSONCombo)
            /\ UNCHANGED <<input, clog>>
       ELSE /\ input' = [Cursor |-> ""]
            /\ \E newErr \in {"", "error creating spinner"} :
               IF newErr # ""
               THEN CmdReturn(newErr) /\ clog' = clog
               ELSE IF flags.JSON
               THEN cpc' = "page" /\ UNCHANGED <<cret, clog>>
               ELSE \E startErr \in {"", "error starting spinner"} :
                       /\ clog' = Append(clog, Call("spinner.Start", "", startErr = ""))
                       /\ IF startErr # ""
                          THEN CmdReturn(startErr)
                          ELSE cpc' = "page" /\ UNCHANGED cret
    /\ UNCHANGED <<command, flags, opts, pages, service, keys, out>>
    /\ UNCHANGED avars

\* The number of page requests made so far.
PagesRequested ==
    Cardinality({i \in 1..Len(clog) : clog[i].op = "ListKVStoreKeys"})

\* One turn of the loop with the cursor of the page dropped: the next request
\* is made with the cursor of this one.
KVListPage_KeepCursor ==
    /\ cpc = "page"
    /\ command = KVListCommand
    /\ \E r \in KVResponses :
          /\ r.HasNext => PagesRequested + 1 < MaxPages
          /\ clog' = Append(clog, Call("ListKVStoreKeys", input.Cursor, r.err = ""))
          /\ pages' = Append(pages, r)
          /\ IF r.err # ""
             THEN /\ IF flags.JSON
                     THEN CmdReturn(r.err)
                     ELSE \E spinErr \in {"", "error stopping spinner"} :
                             CmdReturn(IF spinErr # "" THEN spinErr ELSE r.err)
                  /\ UNCHANGED <<keys, input>>
             ELSE /\ keys' = keys \o r.Data
                  /\ input' = input
                  /\ cpc' = IF r.HasNext THEN "page" ELSE "output"
                  /\ UNCHANGED cret
    /\ UNCHANGED <<command, flags, opts, service, out>>
    /\ UNCHANGED avars

\* One turn of the loop: a page request, and on its error the stop of the
\* spinner and the return; else the keys and the cursor of the page.
KVListPage ==
    /\ cpc = "page"
    /\ command = KVListCommand
    /\ \E r \in KVResponses :
          /\ r.HasNext => PagesRequested + 1 < MaxPages
          /\ clog' = Append(clog, Call("ListKVStoreKeys", input.Cursor, r.err = ""))
          /\ pages' = Append(pages, r)
          /\ IF r.err # ""
             THEN /\ IF flags.JSON
                     THEN CmdReturn(r.err)
                     ELSE \E spinErr \in {"", "error stopping spinner"} :
                             CmdReturn(IF spinErr # "" THEN spinErr ELSE r.err)
                  /\ UNCHANGED <<keys, input>>
             ELSE /\ keys' = keys \o r.Data
                  /\ input' = [input EXCEPT !.Cursor = r.NextCursor]
                  /\ cpc' = IF r.HasNext THEN "page" ELSE "output"
                  /\ UNCHANGED cret
    /\ UNCHANGED <<command, flags, opts, service, out>>
    /\ UNCHANGED avars

\* After the loop: the stop of the spinner and the output of the keys.
KVListOutput ==
    /\ cpc = "output"
    /\ command = KVListCommand
    /\ \E stopErr \in {"", "error stopping spinner"}, werr \in {"", "error encoding JSON"} :
          /\ stopErr # "" => ~flags.JSON
          /\ werr # "" => (stopErr = "" /\ flags.JSON)
          /\ clog' = IF flags.JSON THEN clog
                     ELSE Append(clog, Call("spinner.Stop", "", stopErr = ""))
          /\ IF stopErr # ""
             THEN CmdReturn(stopErr) /\ out' = out
             ELSE /\ CmdReturn(werr)
                  /\ out' = IF werr # "" THEN out
                            ELSE IF flags.JSON THEN Append(out, Output("json", keys))
                            ELSE IF keys = <<>> THEN Append(out, Output("text", <<"no keys">>))
                            ELSE IF flags.Verbose THEN Append(out, Output("verbose", keys))
                            ELSE Append(out, Output("text", keys))
    /\ UNCHANGED <<command, flags, opts, pages, service, input, keys>>
    /\ UNCHANGED avars

\* Exec of an update command up to the API call: cmd.ServiceDetails and the
\* input built from the flags.
UpdateExec ==
    /\ cpc = "start"
    /\ command \in UpdateCommands
    /\ \E r \in ServiceDetailsResults :
          /\ clog' = Append(clog, Call("ServiceDetails", "", r.err = ""))
          /\ IF r.err # ""
             THEN CmdReturn(r.err) /\ UNCHANGED <<service, input>>
             ELSE /\ service' = [ServiceID |-> r.ServiceID, ServiceVersion |-> r.ServiceVersion]
                  /\ input' = IF command = "backend update"
                              THEN UpdateBackendInput(r.ServiceID, r.ServiceVersion, opts)
                              ELSE ConstructInput(r.ServiceID, r.ServiceVersion, opts)
                  /\ cpc' = "update"
                  /\ UNCHANGED cret
    /\ UNCHANGED <<command, flags, opts, pages, keys, out>>
    /\ UNCHANGED avars

\* The rest of that Exec: the update call of the API client and the success
\* message.
UpdateCall ==
    /\ cpc = "update"
    /\ command \in UpdateCommands
    /\ \E err \in {"", "error updating"} :
          /\ clog' = Append(clog, Call("Update", input.Name, err = ""))
          /\ CmdReturn(err)
          /\ out' = IF err = "" THEN Append(out, Output("success", <<input.Name>>)) ELSE out
    /\ UNCHANGED <<command, flags, opts, pages, service, input, keys>>
    /\ UNCHANGED avars

CmdNext ==
    \/ ListExec
    \/ ListCall
    \/ KVListExec
    \/ KVListPage
    \/ KVListOutput
    \/ UpdateExec
    \/ UpdateCall

CmdSpec == CmdInit /\ [][CmdNext]_vars

\* ------------------------------------------------------------------ claims

\* Handler h made a call of op.
Called(h, op) == \E i \in 1..Len(hlog[h]) : hlog[h][i].op = op

\* Handler h made a call of op that failed.
Failed(h, op, arg) ==
    \E i \in 1..Len(hlog[h]) :
        hlog[h][i].op = op /\ hlog[h][i].arg = arg /\ ~hlog[h][i].ok

\* Handler h made a call of op on arg that succeeded.
Succeeded(h, op, arg) ==
    \E i \in 1..Len(hlog[h]) :
        hlog[h][i].op = op /\ hlog[h][i].arg = arg /\ hlog[h][i].ok

\* Handler h constructed its result and offered it to the result channel.
Offered(h) == hpc[h] \in {"send", "returned"}

\* The steps of Exec after the receive.
AfterReceive == {"checkResult", "profileDefault", "profileEdit", "configWrite"}

Occurrences(log, e) == Cardinality({i \in 1..Len(log) : log[i] = e})

\* C1: in one run of Exec the orchestrator receives at most one result from
\* the channel, exactly one once it is past the receive, and that result is
\* the one of the only handler whose send completed; every other handler's
\* result stays unobserved.
C1_OneResultReceived ==
    /\ nReceived <= 1
    /\ Cardinality({h \in Handlers : hpc[h] = "returned"}) = nReceived
    /\ (pc \in AfterReceive \/ (pc = "done" /\ Occurrences(olog, "receive") > 0))
          => nReceived = 1
    /\ nReceived = 1 =>
          /\ sender \in Handlers
          /\ hpc[sender] = "returned"
          /\ ar = res[sender]
          /\ \A h \in Handlers \ {sender} : hpc[h] # "returned"
    /\ nReceived = 0 => ar = NoResult

\* C1 witness: Exec returned after receiving a result while another handler,
\* with a different result, is left at its send.
C1_Witness ==
    /\ pc = "done"
    /\ nReceived = 1
    /\ \E h \in Handlers : hpc[h] = "send" /\ res[h] # ar /\ res[h].err = ""

\* C2 as stated: once a handler has delivered its result, no later request on
\* /callback is handled (no invocation starts).
C2_NoRequestHandledAfterDelivery ==
    [][nReceived >= 1 => \A h \in Handlers : hpc[h] = "idle" => hpc'[h] = "idle"]_vars

\* Bind failed: http.ListenAndServe returned an error.
BindFailed == srv \in {"bindFailed", "exited"}

\* C3 as stated: after a failure to bind the listener, Exec never is past the
\* launch of the browser, blocked on the result channel.
C3_BindFailureIsFatal == BindFailed => pc # "receive"

\* C4: an invocation with an empty code offers the error "no authorization
\* code returned" and calls neither getJWT, nor the verifier, nor the
\* extractor.
C4_EmptyCodeNoExchange ==
    \A h \in Handlers :
        (hpc[h] # "idle" /\ code[h] = "") =>
            /\ Offered(h)
            /\ res[h] = authorizationResult(ErrNoCode, ZeroJWT, "")
            /\ hlog[h] = <<>>
            /\ payload[h] = NoPayload

\* C4 witness: an invocation with an empty code delivered its result.
C4_Witness ==
    \E h \in Handlers : code[h] = "" /\ hpc[h] = "returned" /\ ar.err = ErrNoCode

\* The token endpoint's answer is one getJWT fails on, or lacks a token.
ExchangeUnusable(rs) ==
    \/ rs.transport # "ok"
    \/ rs.status # StatusOK
    \/ rs.read # "ok"
    \/ ~rs.json
    \/ rs.body.AccessToken = ""
    \/ rs.body.IDToken = ""

\* C5: after an exchange that failed or returned an empty access token or ID
\* token, the invocation offers exactly the error "failed to exchange code for
\* JWT" and never calls the signature verifier.
C5_FailedExchangeNoVerification ==
    \A h \in Handlers :
        (Called(h, "getJWT") /\ ExchangeUnusable(resp[h])) =>
            /\ Offered(h)
            /\ res[h] = authorizationResult(ErrExchange, ZeroJWT, "")
            /\ ~Called(h, "NewJSONWebKeySet")
            /\ ~Called(h, "VerifySignature")

\* C5 witness: the endpoint answered 200 with an access token and an empty ID
\* token, and the invocation delivered its result.
C5_Witness ==
    \E h \in Handlers :
        /\ hpc[h] = "returned"
        /\ resp[h].status = StatusOK /\ resp[h].json
        /\ resp[h].body.AccessToken # "" /\ resp[h].body.IDToken = ""

\* One verifyJWTSignature(token) of handler h failed: the fetch of the key
\* set, or the check of the signature.
VerifyFailed(h, token) ==
    Failed(h, "VerifySignature", token) \/ Failed(h, "NewJSONWebKeySet", token)

\* C6: when a verification fails the invocation offers an error and never
\* calls the extractor; when the one of the access token fails the ID token is
\* not verified; and a success result is offered only after both tokens
\* verified.
C6_VerificationMandatory ==
    \A h \in Handlers :
        /\ (VerifyFailed(h, jwt[h].AccessToken) \/ VerifyFailed(h, jwt[h].IDToken)) =>
              /\ Offered(h)
              /\ res[h].err # ""
              /\ res[h].sessionToken = ""
              /\ ~Called(h, "extractSessionToken")
        /\ VerifyFailed(h, jwt[h].AccessToken) =>
              /\ \A i \in 1..Len(hlog[h]) : hlog[h][i].arg # jwt[h].IDToken
        /\ (Offered(h) /\ res[h].err = "") =>
              /\ Succeeded(h, "VerifySignature", jwt[h].AccessToken)
              /\ Succeeded(h, "VerifySignature", jwt[h].IDToken)
        /\ Called(h, "extractSessionToken") =>
              /\ Succeeded(h, "VerifySignature", jwt[h].AccessToken)
              /\ Succeeded(h, "VerifySignature", jwt[h].IDToken)

\* C6 witness: the access token's signature check failed and the invocation
\* delivered its error.
C6_Witness ==
    \E h \in Handlers :
        /\ hpc[h] = "returned"
        /\ Failed(h, "VerifySignature", jwt[h].AccessToken)
        /\ ar.err = ErrVerify

\* The claims carry a session token: ui_token is a mapping whose access_token
\* is a non-empty string.
HasSessionToken(c) ==
    /\ c.ui_token.kind = "map"
    /\ c.ui_token.obj.access_token.kind = "string"
    /\ c.ui_token.obj.access_token.str # ""

\* C7: wherever a handler called extractSessionToken on the claims of its ID
\* token, the call returned the token without error exactly when the claims
\* carry a session token, and otherwise the empty string with the extraction
\* error.
C7_ExtractSessionToken ==
    \A h \in Handlers :
        Called(h, "extractSessionToken") =>
            /\ Offered(h)
            /\ IF HasSessionToken(claims[h])
               THEN /\ Succeeded(h, "extractSessionToken", "")
                    /\ res[h].err = ""
                    /\ res[h].sessionToken = claims[h].ui_token.obj.access_token.str
               ELSE /\ Failed(h, "extractSessionToken", "")
                    /\ res[h].err = ErrExtract
                    /\ res[h].sessionToken = ""

\* C7 witness: the extractor was called on claims whose access_token is the
\* empty string, and on claims that carry a token.
C7_Witness ==
    /\ \E h \in Handlers :
        /\ Called(h, "extractSessionToken")
        /\ claims[h].ui_token.kind = "map"
        /\ claims[h].ui_token.obj.access_token = AnyString("")
    /\ \E h \in Handlers :
        Called(h, "extractSessionToken") /\ HasSessionToken(claims[h])

\* The invocation h went down the happy path: a code, an exchange with two
\* tokens, both verified, and claims that carry a session token.
HappyPath(h) ==
    /\ code[h] # ""
    /\ Called(h, "getJWT") /\ ~ExchangeUnusable(resp[h])
    /\ Succeeded(h, "VerifySignature", jwt[h].AccessToken)
    /\ Succeeded(h, "VerifySignature", jwt[h].IDToken)
    /\ HasSessionToken(claims[h])

\* The index of the first e in log (0 when there is none).
FirstIndex(log, e) ==
    IF \E i \in 1..Len(log) : log[i] = e
    THEN CHOOSE i \in 1..Len(log) : log[i] = e /\ \A j \in 1..(i - 1) : log[j] # e
    ELSE 0

\* C8: when the handler that delivered went down the happy path with session
\* token S, the orchestrator holds a result with sessionToken S; and when
\* Exec returned nil, the default profile's token is S, both in the
\* configuration and in the store, which was written once, after the profile
\* was updated.
C8_HappyPathPersists ==
    /\ (nReceived = 1 /\ HappyPath(sender)) =>
          /\ ar.err = ""
          /\ ar.sessionToken = claims[sender].ui_token.obj.access_token.str
          /\ ar.jwt = resp[sender].body
    /\ (pc = "done" /\ ret = NoErr) =>
          /\ nReceived = 1 /\ HappyPath(sender)
          /\ ProfileDefault(preProfiles) # ""
          /\ profiles[ProfileDefault(preProfiles)].Token = ar.sessionToken
          /\ disk[ProfileDefault(preProfiles)].Token = ar.sessionToken
          /\ Occurrences(olog, "write") = 1
          /\ Occurrences(olog, "edit") = 1
          /\ FirstIndex(olog, "edit") < FirstIndex(olog, "write")

\* C8 witness: Exec returned nil with the session token S2 of the happy path
\* in the default profile.
C8_Witness ==
    /\ pc = "done" /\ ret = NoErr
    /\ HappyPath(sender)
    /\ profiles["user"].Token = "S2"
    /\ preProfiles["user"].Token = "old"

\* C9: once the orchestrator holds an error result, Exec returns an error
\* without calling profile.Edit or Config.Write, and the profiles and the
\* configuration store are as they were.
C9_ErrorResultNoMutation ==
    (nReceived = 1 /\ ar.err # "") =>
        /\ pc \in {"checkResult", "done"}
        /\ pc = "done" => ret = RemediationError("failed to authorize", AuthRemediation)
        /\ Occurrences(olog, "edit") = 0
        /\ Occurrences(olog, "write") = 0
        /\ profiles = preProfiles
        /\ disk = preProfiles

\* C9 witness: the token endpoint answered 400 and Exec returned after
\* receiving exactly "failed to exchange code for JWT".
C9_Witness ==
    /\ pc = "done"
    /\ nReceived = 1
    /\ resp[sender].status = 400
    /\ ar.err = ErrExchange
    /\ ProfileDefault(profiles) # ""

\* C10 as stated: when Exec has returned, either every stage succeeded and the
\* token is persisted, or Exec returned an error and the default profile's
\* token in c.Globals.Config.Profiles is what it was before the flow.
C10_NoPartialSuccess ==
    pc = "done" =>
        \/ /\ ret = NoErr
           /\ nReceived = 1 /\ HappyPath(sender)
           /\ disk = profiles
        \/ /\ ret # NoErr
           /\ \A n \in ProfileNames :
                 preProfiles[n].Default => profiles[n].Token = preProfiles[n].Token

\* The failures of Exec about the profile.
ProfileFailures ==
    {"no profiles available", "failed to update default profile with new session token"}

\* C11 as stated: every error Exec returns carries the fixed AuthRemediation,
\* except the profile-related ones, which carry a remediation of their own.
C11_EveryErrorHasRemediation ==
    (pc = "done" /\ ret # NoErr) =>
        IF ret.inner \in ProfileFailures
        THEN ret.remediation \notin {"", AuthRemediation}
        ELSE ret.remediation = AuthRemediation

\* C12 as stated: an invocation that offers its result has written a body to
\* the requester: an error line with an error result, the success sentence
\* with a success result.
C12_BodyWrittenBeforeResult ==
    \A h \in Handlers :
        Offered(h) =>
            IF res[h].err = ""
            THEN body[h] = SuccessBody
            ELSE body[h] \notin {"", SuccessBody}

\* C13: once the launch of the browser has failed, Exec has returned an error
\* without a receive from the result channel, without a call of profile.Edit
\* or Config.Write, and with the profiles and the store as they were.
C13_BrowserFailureIsFatal ==
    Occurrences(olog, "browser error") > 0 =>
        /\ pc = "done"
        /\ ret = PlainError("failed to open your default browser")
        /\ nReceived = 0 /\ ar = NoResult
        /\ Occurrences(olog, "receive") = 0
        /\ Occurrences(olog, "edit") = 0
        /\ Occurrences(olog, "write") = 0
        /\ profiles = preProfiles
        /\ disk = preProfiles

\* C13 witness: the browser failed to launch while a handler is at its send.
C13_Witness ==
    /\ Occurrences(olog, "browser error") = 1
    /\ \E h \in Handlers : hpc[h] = "send"

\* C17: a handler returns only by completing its one send: it goes from its
\* send to returned in the step in which the orchestrator receives from it,
\* it never leaves returned, and at its send it does nothing but wait.
C17_OneSendPerInvocation ==
    [][\A h \in Handlers :
          /\ (hpc[h] # "returned" /\ hpc'[h] = "returned") =>
                (hpc[h] = "send" /\ nReceived' = nReceived + 1 /\ sender' = h)
          /\ hpc[h] = "returned" => (hpc'[h] = "returned" /\ res'[h] = res[h])
          /\ hpc[h] = "send" =>
                (hpc'[h] \in {"send", "returned"} /\ res'[h] = res[h]
                 /\ hlog'[h] = hlog[h] /\ body'[h] = body[h])
          /\ (hpc[h] \notin {"send", "returned"} /\ hpc'[h] = "send") => res'[h] # NoResult]_vars

\* C17 witness: one handler returned after its send and another one, that
\* failed at the ID token, is at its send.
C17_Witness ==
    /\ \E h \in Handlers : hpc[h] = "returned" /\ sender = h
    /\ \E h \in Handlers : hpc[h] = "send" /\ VerifyFailed(h, jwt[h].IDToken)

\* The calls of a complete invocation, in order.
StageOrder(j) ==
    <<"getJWT", "NewJSONWebKeySet", "VerifySignature", "NewJSONWebKeySet",
      "VerifySignature", "extractSessionToken">>

\* The token each call of a complete invocation is about ("" for the others).
StageToken(j) ==
    <<"", j.AccessToken, j.AccessToken, j.IDToken, j.IDToken, "">>

\* C18: the calls of an invocation are a prefix of exchange, verification of
\* the access token, verification of the ID token, extraction; every call but
\* the last one succeeded; nothing is called after a failure; and the result
\* is offered only after the last call.
C18_StagesInOrder ==
    \A h \in Handlers :
        LET n == Len(hlog[h]) IN
        /\ n <= Len(StageOrder(jwt[h]))
        /\ \A i \in 1..n :
              /\ hlog[h][i].op = StageOrder(jwt[h])[i]
              /\ i > 1 => hlog[h][i].arg = StageToken(jwt[h])[i]
              /\ i < n => hlog[h][i].ok
        /\ (n > 0 /\ ~hlog[h][n].ok) => Offered(h) /\ res[h].err # ""
        /\ (Offered(h) /\ res[h].err = "") => n = Len(StageOrder(jwt[h]))
        /\ Occurrences([i \in 1..n |-> hlog[h][i].op], "getJWT") <= 1
        /\ Occurrences([i \in 1..n |-> hlog[h][i].op], "VerifySignature") <= 2

\* C18 witness: an invocation went through all the stages and delivered.
C18_Witness ==
    \E h \in Handlers :
        /\ hpc[h] = "returned"
        /\ Len(hlog[h]) = Len(StageOrder(jwt[h]))
        /\ hlog[h][Len(hlog[h])].ok

\* The steps of a run of Exec that got through, in order.
ExecOrder ==
    <<"verifier", "go", "url", "browser", "receive", "success message", "edit", "write">>

\* C19: the orchestrator's steps follow the order verifier, goroutine, URL,
\* browser, receive: the browser is launched only after the go statement that
\* starts the listener goroutine, and the one receive only after the launch
\* of the browser succeeded.
C19_ExecOrder ==
    /\ \A i \in 1..Len(olog) :
          olog[i] = ExecOrder[i] \/ (i = 4 /\ i = Len(olog) /\ olog[i] = "browser error")
    /\ Occurrences(olog, "receive") = nReceived
    /\ nReceived <= 1
    /\ pc = "receive" => Len(olog) = 4 /\ olog[4] = "browser"
    /\ (Len(olog) >= 4) => (srv # "none" /\ authURL = generateAuthorizationURL(verifier))

\* C19 witness: Exec received a result, the listener serving.
C19_Witness ==
    /\ Len(olog) >= 5 /\ olog[5] = "receive"
    /\ srv = "listening"

\* C20: a handler's send completes only in the step in which the orchestrator
\* receives; what the orchestrator holds is what that handler sent; and all
\* that the handler did (its calls, its body) was done by then.
C20_Rendezvous ==
    /\ \A h \in Handlers : hpc[h] = "returned" => (sender = h /\ nReceived >= 1)
    /\ nReceived >= 1 =>
          /\ hpc[sender] = "returned"
          /\ ar = res[sender]
          /\ ar.err = "" =>
                /\ ar.jwt = jwt[sender]
                /\ ar.sessionToken = extractSessionToken(claims[sender]).tok
                /\ body[sender] = SuccessBody
                /\ Succeeded(sender, "getJWT", code[sender])
                /\ Succeeded(sender, "VerifySignature", jwt[sender].AccessToken)
                /\ Succeeded(sender, "VerifySignature", jwt[sender].IDToken)
                /\ Succeeded(sender, "extractSessionToken", "")
    /\ pc \in AfterReceive => nReceived >= 1

\* C20 witness: the orchestrator holds a success result with the tokens and
\* the session token of its sender.
C20_Witness ==
    /\ pc = "profileDefault"
    /\ ar.err = "" /\ ar.sessionToken = "S1" /\ ar.jwt = JWT("AT1", "IT1")
    /\ hpc[sender] = "returned"

\* C15: with verbose and JSON both enabled a list command returns
\* ErrInvalidVerboseJSONCombo with no call of cmd.ServiceDetails, no call of
\* the API client (nor of the spinner), no service resolved and nothing
\* written to out.
C15_VerboseJSONRejectedFirst ==
    (command \in ServiceListCommands \cup {KVListCommand} /\ flags.Verbose /\ flags.JSON) =>
        /\ cpc \in {"start", "done"}
        /\ clog = <<>>
        /\ out = <<>>
        /\ service = NoService
        /\ input = NoInput
        /\ cpc = "done" => cret = ErrInvalidVerboseJSONCombo

\* C15 witness: a list command of a service's objects returned with both
\* flags enabled.
C15_Witness ==
    /\ command \in ServiceListCommands
    /\ flags.Verbose /\ flags.JSON
    /\ cpc = "done"

BrowserLaunched == Occurrences(olog, "browser") > 0

\* C21: once the browser is launched Exec waits at the receive and leaves it
\* only by receiving a result from a handler at its send (no timeout, no other
\* way out), so while no request has arrived Exec stays there; and once a
\* request has arrived while Exec waits, Exec eventually leaves the receive.
C21_WaitsOnlyForResult ==
    /\ [][pc = "receive" /\ pc' # "receive" =>
            /\ pc' = "checkResult"
            /\ nReceived' = nReceived + 1
            /\ sender' \in Handlers /\ hpc[sender'] = "send" /\ ar' = res[sender']]_vars
    /\ []((BrowserLaunched /\ \A h \in Handlers : hpc[h] = "idle") =>
            (pc = "receive" /\ ret = NoErr))
    /\ ((pc = "receive" /\ \E h \in Handlers : hpc[h] # "idle") ~> pc # "receive")

\* C21 witness: Exec waits at the receive, a request has arrived and its
\* handler has not yet reached its send.
C21_Witness ==
    /\ pc = "receive"
    /\ \E h \in Handlers : hpc[h] = "verifyID"

\* C22: no step takes the listener out of its listening state, and as long
\* as it listens a request on /callback is dispatched to the handler, also
\* after a result was received and after Exec returned.
C22_ListenerNeverShutDown ==
    /\ [][srv = "listening" => srv' = "listening"]_vars
    /\ []((srv = "listening" /\ \E h \in Handlers : hpc[h] = "idle") =>
            \E h \in Handlers : ENABLED HandleCallback(h))

\* C22 witness: Exec returned after a result was received, the listener
\* listens and a further request can still come.
C22_Witness ==
    /\ pc = "done"
    /\ nReceived = 1
    /\ srv = "listening"
    /\ \E h \in Handlers : hpc[h] = "idle"

\* The index of handler h's call of getJWT in its log.
ExchangeIndex(h) == CHOOSE i \in 1..Len(hlog[h]) : hlog[h][i].op = "getJWT"

\* C23: a call of getJWT returned the endpoint's token response without error
\* exactly when the POST got an answer, the status was 200, the body was read
\* and decoded; on a transport error, another status, a read error or a decode
\* error it returned the zero JWT with an error; and it sent one request.
C23_GetJWT ==
    \A h \in Handlers :
        IF Called(h, "getJWT")
        THEN LET rs == resp[h]
                 good == rs.transport = "ok" /\ rs.status = StatusOK
                         /\ rs.read = "ok" /\ rs.json
             IN  /\ hlog[h][ExchangeIndex(h)].ok <=> good
                 /\ good => jwt[h] = rs.body
                 /\ ~good => jwt[h] = ZeroJWT
                 /\ posts[h] = 1
                 /\ payload[h].code = code[h]
        ELSE posts[h] = 0 /\ jwt[h] = ZeroJWT

\* C23 witness: one call of getJWT met a status other than 200 with a body
\* that holds tokens, and another one succeeded.
C23_Witness ==
    /\ \E h \in Handlers :
        /\ Called(h, "getJWT") /\ resp[h].transport = "ok"
        /\ resp[h].status # StatusOK /\ resp[h].body # ZeroJWT
    /\ \E h \in Handlers : Succeeded(h, "getJWT", code[h])

\* The number of handler h's calls of op.
CallCount(h, op) == Cardinality({i \in 1..Len(hlog[h]) : hlog[h][i].op = op})

\* C24: every check of a signature comes right after a fetch of the key set
\* made for the same token (no key set is kept from one call to the next), so
\* an invocation that offers a success result fetched the key set twice; and
\* a failed fetch or a failed check is the invocation's last call, after which
\* it offers the verification error with no tokens.
C24_FreshKeySetFailClosed ==
    \A h \in Handlers :
        /\ hlog[h] # <<>> => hlog[h][1].op # "VerifySignature"
        /\ \A i \in 2..Len(hlog[h]) :
              hlog[h][i].op = "VerifySignature" =>
                  /\ hlog[h][i - 1].op = "NewJSONWebKeySet"
                  /\ hlog[h][i - 1].ok
                  /\ hlog[h][i - 1].arg = hlog[h][i].arg
        /\ \A i \in 1..Len(hlog[h]) :
              (hlog[h][i].op \in {"NewJSONWebKeySet", "VerifySignature"} /\ ~hlog[h][i].ok) =>
                  /\ i = Len(hlog[h])
                  /\ Offered(h)
                  /\ res[h] = authorizationResult(ErrVerify, ZeroJWT, "")
        /\ hpc[h] \in {"verifyID", "extract"} =>
              CallCount(h, "NewJSONWebKeySet") = CallCount(h, "VerifySignature")
        /\ (Offered(h) /\ res[h].err = "") =>
              /\ CallCount(h, "NewJSONWebKeySet") = 2
              /\ CallCount(h, "VerifySignature") = 2

\* C24 witness: one invocation offered a success result, and another one
\* failed to fetch the key set for its ID token.
C24_Witness ==
    /\ \E h \in Handlers : Offered(h) /\ res[h].err = "" /\ res[h].sessionToken # ""
    /\ \E h \in Handlers :
        /\ Succeeded(h, "VerifySignature", jwt[h].AccessToken)
        /\ Failed(h, "NewJSONWebKeySet", jwt[h].IDToken)

\* C25: the verifier, once generated, never changes; the challenge in the
\* authorization URL is derived from it; and every invocation that posted to
\* the token endpoint posted that verifier's raw value.
C25_VerifierFixed ==
    /\ [][verifier # "" => verifier' = verifier]_vars
    /\ [](/\ Occurrences(olog, "verifier") <= 1
          /\ verifier # "" <=> Occurrences(olog, "verifier") = 1
          /\ authURL # NoURL =>
                /\ verifier # ""
                /\ authURL.code_challenge = CreateCodeChallenge(verifier)
          /\ \A h \in Handlers :
                payload[h] # NoPayload =>
                    /\ verifier # ""
                    /\ payload[h].code_verifier = verifier
                    /\ authURL # NoURL =>
                          authURL.code_challenge = CreateCodeChallenge(payload[h].code_verifier))

\* C25 witness: two invocations posted to the token endpoint after the URL
\* was built.
C25_Witness ==
    /\ authURL # NoURL
    /\ \A h \in {1, 2} : payload[h] # NoPayload /\ posts[h] = 1

\* The three failures of Exec after a success result.
AfterSuccessFailures ==
    {"no profiles available",
     "failed to update default profile with new session token",
     "error saving config file"}

\* C26 as stated: each of the three failures after a success result is
\* returned with a remediation text of its own; with no default profile
\* neither profile.Edit nor Config.Write is called; and with a failed
\* profile.Edit Config.Write is not called and the profiles are not
\* reassigned.
C26_ThreeProfileFailures ==
    (pc = "done" /\ ret.inner \in AfterSuccessFailures) =>
        /\ ret.remediation # ""
        /\ ret.remediation # AuthRemediation
        /\ ret.inner = "no profiles available" =>
              /\ ret.remediation = ProfileRemediation
              /\ Occurrences(olog, "edit") = 0
              /\ Occurrences(olog, "write") = 0
        /\ ret.inner = "failed to update default profile with new session token" =>
              /\ ret.remediation = EditRemediation
              /\ Occurrences(olog, "write") = 0
              /\ profiles = preProfiles
        /\ ret.inner = "error saving config file" =>
              ret.remediation \notin {ProfileRemediation, EditRemediation}

\* A result is well formed: an error with no tokens, or no error with a
\* session token, an access token and an ID token.
WellFormed(r) ==
    IF r.err # ""
    THEN r.jwt = ZeroJWT /\ r.sessionToken = ""
    ELSE r.sessionToken # "" /\ r.jwt.AccessToken # "" /\ r.jwt.IDToken # ""

\* C27: every result a handler offers is well formed, and so is the result
\* Exec checks: it never holds a nil error with an empty session token.
C27_ResultsWellFormed ==
    /\ \A h \in Handlers : Offered(h) => WellFormed(res[h])
    /\ nReceived >= 1 =>
          /\ WellFormed(ar)
          /\ ~(ar.err = "" /\ ar.sessionToken = "")

\* C27 witness: Exec checks a success result while another handler offers an
\* extraction error.
C27_Witness ==
    /\ pc = "checkResult" /\ ar.err = ""
    /\ \E h \in Handlers : hpc[h] = "send" /\ res[h].err = ErrExtract

\* C28 as stated: once the success message is written, the session token is
\* in the default profile of the written configuration, and no run that wrote
\* the message ends with an error.
C28_SuccessMessageAfterPersist ==
    Occurrences(olog, "success message") > 0 =>
        /\ ProfileDefault(preProfiles) # ""
        /\ disk[ProfileDefault(preProfiles)].Token = ar.sessionToken
        /\ pc = "done" => ret = NoErr

\* C29 as stated: every started invocation of the handler eventually returns.
C29_EveryHandlerReturns ==
    \A h \in Handlers : (hpc[h] # "idle") ~> (hpc[h] = "returned")

\* The page requests made so far, in order.
PageRequests == SelectSeq(clog, LAMBDA e : e.op = "ListKVStoreKeys")

\* The keys of the pages ps, in the order of the pages.
RECURSIVE KeysOf(_)
KeysOf(ps) == IF ps = <<>> THEN <<>> ELSE ps[1].Data \o KeysOf(Tail(ps))

\* The key listing ended on a failed page request.
PageFailed ==
    command = KVListCommand /\ pages # <<>> /\ pages[Len(pages)].err # ""

\* The paging itself: the first request has the empty cursor, each further
\* one the next_cursor of the answer before it; the keys are those of the
\* pages in order; the loop goes on after each answer with a next_cursor and
\* ends at the first one without; after a failed request nothing is written.
KVPaging ==
    command = KVListCommand =>
        /\ Len(PageRequests) = Len(pages)
        /\ \A i \in 1..Len(pages) :
              /\ PageRequests[i].arg = IF i = 1 THEN "" ELSE pages[i - 1].NextCursor
              /\ PageRequests[i].ok <=> pages[i].err = ""
              /\ i < Len(pages) => (pages[i].err = "" /\ pages[i].HasNext)
        /\ ~PageFailed => keys = KeysOf(pages)
        /\ cpc = "page" => (pages = <<>> \/ pages[Len(pages)].HasNext)
        /\ cpc = "output" => (pages # <<>> /\ ~PageFailed /\ ~pages[Len(pages)].HasNext)
        /\ \A i \in 1..Len(out) :
              /\ pages # <<>> /\ ~PageFailed /\ ~pages[Len(pages)].HasNext
              /\ out[i].what = IF keys = <<>> /\ ~flags.JSON THEN <<"no keys">> ELSE keys
        /\ PageFailed => (cpc = "done" /\ out = <<>> /\ cret # "")

\* C30 as stated: the paging is as above, and after a failed page request
\* Exec returns the error of that request.
C30_KVPagingAsStated ==
    /\ KVPaging
    /\ PageFailed => cret = pages[Len(pages)].err

\* C30 as amended: the paging is as above, and after a failed page request
\* Exec returns the error of that request, or, when the spinner runs (no JSON
\* output) and fails to stop, the spinner's error.
C30_KVPaging ==
    /\ KVPaging
    /\ PageFailed =>
          /\ cret \in {pages[Len(pages)].err, "error stopping spinner"}
          /\ flags.JSON => cret = pages[Len(pages)].err

\* C30 witness: the listing wrote the keys of two pages, the second one
\* requested with the first one's cursor.
C30_Witness ==
    /\ command = KVListCommand
    /\ cpc = "done" /\ cret = ""
    /\ Len(pages) = 2 /\ pages[1].Data = <<"k2">> /\ pages[2].Data = <<"k1">>
    /\ PageRequests[2].arg = "c2"
    /\ out = <<Output("text", <<"k2", "k1">>)>>

====
